---- MODULE Spec2Model ----
(***************************************************************************)
(* Model of webapp/sso_auth.py (SSOAuthHandler, the device-authorization   *)
(* flow) and webapp/app.py (the scan-job table, run_scan, the websocket    *)
(* progress loop and the SSO endpoints).                                   *)
(*                                                                         *)
(* Every endpoint of app.py is an `async def` that runs on one asyncio     *)
(* event loop.  A coroutine keeps the loop until it reaches an `await`.    *)
(* The SSO endpoints and start_scan contain no await, so each is one       *)
(* action.  run_scan contains no await either: it is split into steps so   *)
(* that the successive writes to the job record are visible, and the       *)
(* variable `loop` records that it holds the event loop between them.      *)
(***************************************************************************)
EXTENDS Integers, Sequences, FiniteSets, TLC

\* ------------------------------------------------------------ bounds
MaxStarts == 2        \* client registrations the provider accepts
MaxTime == 3          \* clock ticks (datetime.now())
MaxJobs == 1          \* scan jobs submitted
MaxLines == 2         \* output lines one subprocess prints
MaxSnap == 3          \* snapshots one websocket subscriber receives
MaxSubs == 1          \* websocket subscriptions accepted
MaxTail == 11         \* output lines of the subprocess with the long output
MaxApiJobs == 2       \* scan jobs submitted while the table is being read
MaxPages == 2         \* pages the provider splits one listing into

\* ------------------------------------------------------------ values
None == 0                         \* Python None for ids, tokens, instants
NoRegion == "None"                \* Python None for a region name
NoString == "None"                \* Python None for any other string
Regions == {"us-east-1", "eu-west-1"}
TokenLifetimes == {1, 2}          \* response['expiresIn'] of create_token

\* A start URL is the sequence of its dot/slash separated parts.
StartUrls ==
    { <<"acme", "awsapps.com", "start">>,
      <<"acme", "eu-west-1", "awsapps.com", "start">>,
      <<"sso", "example.org", "start">> }

Contains(url, part) == \E i \in 1..Len(url) : url[i] = part

VARIABLES
    sso_handler,   \* the global SSOAuthHandler instance
    provider,      \* identity provider: ids it has issued so far
    now,           \* datetime.now()
    lastOp,        \* history: the last handler call, its result, its provider calls
    hist,          \* history: facts about earlier calls that claims refer to
    scan_jobs,     \* the job table, in insertion order (job_id = index)
    tasks,         \* per job: the local state of its run_scan coroutine
    loop,          \* job whose run_scan holds the event loop, or None
    websockets,    \* per subscription: job_id, position, snapshots received
    environ        \* os.environ of the server process

ssoVars == <<sso_handler, provider, lastOp, hist>>
scanVars == <<scan_jobs, tasks, loop, websockets, environ>>
vars == <<sso_handler, provider, now, lastOp, hist,
          scan_jobs, tasks, loop, websockets, environ>>

\* ------------------------------------------------------------ SSOAuthHandler
SSOAuthHandler_init ==
    [ sso_oidc_client |-> NoRegion, sso_client |-> NoRegion,
      client_id |-> None, client_secret |-> None, device_code |-> None,
      access_token |-> None, token_expiry |-> None,
      current_region |-> NoRegion ]

\* A boto3 client is modelled by the region it was built for.
get_sso_oidc_client(h, region) ==
    LET h1 == IF h.current_region # region
              THEN [h EXCEPT !.sso_oidc_client = NoRegion,
                             !.sso_client = NoRegion,
                             !.client_id = None,
                             !.client_secret = None,
                             !.current_region = region]
              ELSE h
    IN  IF h1.sso_oidc_client = NoRegion
        THEN [h1 EXCEPT !.sso_oidc_client = region]
        ELSE h1

get_sso_client(h, region) ==
    IF h.sso_client = NoRegion THEN [h EXCEPT !.sso_client = region] ELSE h

DetectOrder ==
    << "us-east-1", "us-east-2", "us-west-2", "eu-west-1",
       "eu-central-1", "ap-southeast-1", "ap-northeast-1" >>

detect_region_from_url(start_url) ==
    IF Contains(start_url, "awsapps.com")
    THEN LET hits == { i \in 1..Len(DetectOrder) : Contains(start_url, DetectOrder[i]) }
         IN  IF hits = {} THEN "us-east-1"
             ELSE DetectOrder[CHOOSE i \in hits : \A k \in hits : i <= k]
    ELSE "us-east-1"

\* One call to the provider, as the handler issues it.
Call(api, cid, csec, dcode, tok) ==
    [ api |-> api, clientId |-> cid, clientSecret |-> csec,
      deviceCode |-> dcode, accessToken |-> tok ]

\* resp: [raises |-> BOOLEAN, clientId, clientSecret]
register_client(h, region, resp) ==
    LET h1 == get_sso_oidc_client(h, region)
        call == Call("register_client", None, None, None, None)
    IN  IF resp.raises
        THEN [ h |-> h1, raised |-> TRUE, calls |-> <<call>> ]
        ELSE [ h |-> [h1 EXCEPT !.client_id = resp.clientId,
                                !.client_secret = resp.clientSecret],
               raised |-> FALSE, calls |-> <<call>> ]

\* A variant that keeps a client once registered, whatever the region.
start_device_authorization_reuse(h, start_url, region, regResp, devResp) ==
    LET rg == IF region = NoRegion THEN detect_region_from_url(start_url) ELSE region
        r1 == IF h.client_id # None
              THEN [ h |-> [h EXCEPT !.current_region = rg, !.sso_oidc_client = rg],
                     raised |-> FALSE, calls |-> <<>> ]
              ELSE register_client(h, rg, regResp)
    IN  IF r1.raised
        THEN [ h |-> r1.h, raised |-> TRUE, calls |-> r1.calls, region |-> rg ]
        ELSE LET h2 == get_sso_oidc_client(r1.h, rg)
                 call == Call("start_device_authorization",
                              h2.client_id, h2.client_secret, None, None)
             IN  IF devResp.raises \/ h2.client_id = None
                 THEN [ h |-> h2, raised |-> TRUE,
                        calls |-> r1.calls \o <<call>>, region |-> rg ]
                 ELSE [ h |-> [h2 EXCEPT !.device_code = devResp.deviceCode],
                        raised |-> FALSE,
                        calls |-> r1.calls \o <<call>>, region |-> rg ]

\* regResp as for register_client; devResp: [raises |-> BOOLEAN, deviceCode].
\* A request without a client id is rejected by the provider's client
\* library (parameter validation), which raises.
start_device_authorization(h, start_url, region, regResp, devResp) ==
    LET rg == IF region = NoRegion THEN detect_region_from_url(start_url) ELSE region
        r1 == register_client(h, rg, regResp)
    IN  IF r1.raised
        THEN [ h |-> r1.h, raised |-> TRUE, calls |-> r1.calls, region |-> rg ]
        ELSE LET h2 == get_sso_oidc_client(r1.h, rg)
                 call == Call("start_device_authorization",
                              h2.client_id, h2.client_secret, None, None)
             IN  IF devResp.raises \/ h2.client_id = None
                 THEN [ h |-> h2, raised |-> TRUE,
                        calls |-> r1.calls \o <<call>>, region |-> rg ]
                 ELSE [ h |-> [h2 EXCEPT !.device_code = devResp.deviceCode],
                        raised |-> FALSE,
                        calls |-> r1.calls \o <<call>>, region |-> rg ]

\* The provider's answers to create_token.
PollKinds == {"success", "pending", "slow_down", "expired", "denied", "error"}

Result(status, message) == [ status |-> status, message |-> message ]

\* A variant that also drops the device code when told to slow down.
poll_for_token_slow_clears(h, region, resp, t) ==
    IF h.device_code = None
    THEN [ h |-> h, ret |-> Result("error", "No device authorization in progress"),
           calls |-> <<>> ]
    ELSE IF h.client_id = None
    THEN [ h |-> h, ret |-> Result("error", "Client not registered"), calls |-> <<>> ]
    ELSE LET h1 == get_sso_oidc_client(h, region)
             call == Call("create_token", h1.client_id, h1.client_secret,
                          h1.device_code, None)
             kind == IF h1.client_id = None THEN "error" ELSE resp.kind
         IN  CASE kind = "success" ->
                    [ h |-> [h1 EXCEPT !.access_token = resp.accessToken,
                                       !.token_expiry = t + resp.expiresIn],
                      ret |-> Result("success", "token"), calls |-> <<call>> ]
               [] kind \in {"slow_down", "expired", "denied"} ->
                    [ h |-> [h1 EXCEPT !.device_code = None],
                      ret |-> Result(kind, "provider"), calls |-> <<call>> ]
               [] OTHER ->
                    [ h |-> h1, ret |-> Result(kind, "provider"), calls |-> <<call>> ]

\* A variant that keeps the device code after Expired / Denied.
poll_for_token_keeps(h, region, resp, t) ==
    IF h.device_code = None
    THEN [ h |-> h, ret |-> Result("error", "No device authorization in progress"),
           calls |-> <<>> ]
    ELSE IF h.client_id = None
    THEN [ h |-> h, ret |-> Result("error", "Client not registered"), calls |-> <<>> ]
    ELSE LET h1 == get_sso_oidc_client(h, region)
             call == Call("create_token", h1.client_id, h1.client_secret,
                          h1.device_code, None)
             kind == IF h1.client_id = None THEN "error" ELSE resp.kind
         IN  CASE kind = "success" ->
                    [ h |-> [h1 EXCEPT !.access_token = resp.accessToken,
                                       !.token_expiry = t + resp.expiresIn],
                      ret |-> Result("success", "token"), calls |-> <<call>> ]
               [] OTHER ->
                    [ h |-> h1, ret |-> Result(kind, "provider"), calls |-> <<call>> ]

\* A variant without the guard on the device code.
poll_for_token_unguarded(h, region, resp, t) ==
    LET h1 == get_sso_oidc_client(h, region)
        call == Call("create_token", h1.client_id, h1.client_secret,
                     h1.device_code, None)
        kind == IF h1.client_id = None \/ h1.device_code = None
                THEN "error" ELSE resp.kind
    IN  CASE kind = "success" ->
               [ h |-> [h1 EXCEPT !.access_token = resp.accessToken,
                                  !.token_expiry = t + resp.expiresIn],
                 ret |-> Result("success", "token"), calls |-> <<call>> ]
          [] kind \in {"expired", "denied"} ->
               [ h |-> [h1 EXCEPT !.device_code = None],
                 ret |-> Result(kind, "provider"), calls |-> <<call>> ]
          [] OTHER ->
               [ h |-> h1, ret |-> Result(kind, "provider"), calls |-> <<call>> ]

\* resp: [kind \in PollKinds, accessToken, expiresIn]; t: datetime.now().
\* create_token without a client id fails parameter validation, which the
\* last `except Exception` turns into the generic error.
poll_for_token(h, region, resp, t) ==
    IF h.device_code = None
    THEN [ h |-> h, ret |-> Result("error", "No device authorization in progress"),
           calls |-> <<>> ]
    ELSE IF h.client_id = None
    THEN [ h |-> h, ret |-> Result("error", "Client not registered"), calls |-> <<>> ]
    ELSE LET h1 == get_sso_oidc_client(h, region)
             call == Call("create_token", h1.client_id, h1.client_secret,
                          h1.device_code, None)
             kind == IF h1.client_id = None THEN "error" ELSE resp.kind
         IN  CASE kind = "success" ->
                    [ h |-> [h1 EXCEPT !.access_token = resp.accessToken,
                                       !.token_expiry = t + resp.expiresIn],
                      ret |-> Result("success", "token"), calls |-> <<call>> ]
               [] kind \in {"expired", "denied"} ->
                    [ h |-> [h1 EXCEPT !.device_code = None],
                      ret |-> Result(kind, "provider"), calls |-> <<call>> ]
               [] OTHER ->
                    [ h |-> h1, ret |-> Result(kind, "provider"), calls |-> <<call>> ]

\* resp: [raises |-> BOOLEAN]
get_role_credentials(h, account_id, role_name, region, resp) ==
    IF h.access_token = None
    THEN [ h |-> h, ret |-> Result("error", "Not authenticated"), calls |-> <<>> ]
    ELSE LET h1 == get_sso_client(h, region)
             call == Call("get_role_credentials", None, None, None, h1.access_token)
         IN  IF resp.raises
             THEN [ h |-> h1, ret |-> Result("error", "provider"), calls |-> <<call>> ]
             ELSE [ h |-> h1, ret |-> Result("credentials", "provider"),
                    calls |-> <<call>> ]

\* A variant for which the token is still good at the instant of expiry.
is_authenticated_at_expiry(h, t) ==
    IF h.access_token = None \/ h.token_expiry = None
    THEN FALSE
    ELSE t <= h.token_expiry

is_authenticated(h, t) ==
    IF h.access_token = None \/ h.token_expiry = None
    THEN FALSE
    ELSE t < h.token_expiry

\* A variant that forgets to drop the token.
reset_keeps_token(h) ==
    [ SSOAuthHandler_init EXCEPT !.access_token = h.access_token,
                                 !.token_expiry = h.token_expiry ]

reset(h) == SSOAuthHandler_init

\* ------------------------------------------------------------ SSO endpoints
Accounts == {"111111111111"}
Roles == {"Admin"}

NoSessionMessages ==
    { "No SSO login in progress. Please start SSO login first.",
      "SSO client not registered. Please restart SSO login.",
      "No device authorization in progress",
      "Client not registered" }

sso_status(h, t) ==
    [ h |-> h,
      ret |-> Result(IF is_authenticated(h, t) THEN "authenticated"
                                               ELSE "unauthenticated",
                     "status"),
      calls |-> <<>> ]

sso_start(h, start_url, region, regResp, devResp) ==
    LET r == start_device_authorization(h, start_url, region, regResp, devResp)
    IN  [ h |-> r.h,
          ret |-> Result(IF r.raised THEN "error" ELSE "started", r.region),
          calls |-> r.calls ]

sso_poll(h, resp, t) ==
    IF h.current_region = NoRegion
    THEN [ h |-> h,
           ret |-> Result("error",
                          "No SSO login in progress. Please start SSO login first."),
           calls |-> <<>> ]
    ELSE IF h.client_id = None
    THEN [ h |-> h,
           ret |-> Result("error",
                          "SSO client not registered. Please restart SSO login."),
           calls |-> <<>> ]
    ELSE poll_for_token(h, h.current_region, resp, t)

sso_get_credentials(h, account_id, role_name, region, resp, t) ==
    IF ~is_authenticated(h, t)
    THEN [ h |-> h, ret |-> Result("error", "Not authenticated"), calls |-> <<>> ]
    ELSE get_role_credentials(h, account_id, role_name, region, resp)

\* ------------------------------------------------------------ history
NoStart ==
    [ region |-> NoRegion, client_id |-> None, client_secret |-> None,
      prev_region |-> NoRegion ]

hist_init ==
    [ exchanged |-> FALSE,   \* a poll returned success since construction / reset
      cleared |-> FALSE,     \* a poll returned expired / denied, no start succeeded since
      prevStart |-> NoStart ]  \* region and client pair of the last successful start

Op(name, r) == [ op |-> name, ret |-> r.ret, calls |-> r.calls ]

\* ------------------------------------------------------------ SSO actions
SsoStatus ==
    /\ lastOp' = Op("sso_status", sso_status(sso_handler, now))
    /\ UNCHANGED <<sso_handler, provider, now, hist, scanVars>>

SsoStart(start_url, region, regRaises, devRaises) ==
    /\ provider.registered < MaxStarts
    /\ provider.issued < MaxStarts
    /\ LET fresh == provider.registered + 1
           regResp == [ raises |-> regRaises, clientId |-> fresh, clientSecret |-> fresh ]
           devResp == [ raises |-> devRaises, deviceCode |-> provider.issued + 1 ]
           r == sso_start(sso_handler, start_url, region, regResp, devResp)
           ok == r.ret.status = "started"
           didRegister == /\ ~regRaises
                          /\ \E i \in 1..Len(r.calls) : r.calls[i].api = "register_client"
       IN  /\ sso_handler' = r.h
           /\ provider' = [ registered |-> IF didRegister THEN fresh
                                           ELSE provider.registered,
                            issued |-> IF ok THEN provider.issued + 1
                                       ELSE provider.issued ]
           /\ lastOp' = Op("sso_start", r)
           /\ hist' = IF ok
                      THEN [ hist EXCEPT !.cleared = FALSE,
                                         !.prevStart =
                                             [ region |-> r.ret.message,
                                               client_id |-> r.h.client_id,
                                               client_secret |-> r.h.client_secret,
                                               prev_region |-> hist.prevStart.region ] ]
                      ELSE hist
    /\ UNCHANGED <<now, scanVars>>

SsoPoll(kind, life) ==
    /\ LET resp == [ kind |-> kind, accessToken |-> sso_handler.device_code,
                     expiresIn |-> life ]
           r == sso_poll(sso_handler, resp, now)
       IN  /\ sso_handler' = r.h
           /\ lastOp' = Op("sso_poll", r)
           /\ hist' = [ hist EXCEPT
                          !.exchanged = @ \/ r.ret.status = "success",
                          !.cleared = @ \/ r.ret.status \in {"expired", "denied"} ]
    /\ UNCHANGED <<provider, now, scanVars>>

SsoGetCredentials(account_id, role_name, region, raises) ==
    /\ LET r == sso_get_credentials(sso_handler, account_id, role_name, region,
                                    [ raises |-> raises ], now)
       IN  /\ sso_handler' = r.h
           /\ lastOp' = Op("sso_get_credentials", r)
    /\ UNCHANGED <<provider, now, hist, scanVars>>

Reset ==
    /\ sso_handler' = reset(sso_handler)
    /\ lastOp' = [ op |-> "reset", ret |-> Result("none", "none"), calls |-> <<>> ]
    /\ hist' = [ hist EXCEPT !.exchanged = FALSE ]
    /\ UNCHANGED <<provider, now, scanVars>>

Tick ==
    /\ now <= MaxTime
    /\ now' = now + 1
    /\ UNCHANGED <<ssoVars, scanVars>>

SsoStartStep ==
    \E u \in StartUrls, rg \in Regions \cup {NoRegion}, a \in BOOLEAN, b \in BOOLEAN :
        SsoStart(u, rg, a, b)
SsoPollStep == \E k \in PollKinds, life \in TokenLifetimes : SsoPoll(k, life)
SsoGetCredentialsStep ==
    \E a \in Accounts, r \in Roles, rg \in Regions, x \in BOOLEAN :
        SsoGetCredentials(a, r, rg, x)

EmptyEnviron ==
    [ AWS_PROFILE |-> "unset", AWS_ACCESS_KEY_ID |-> "unset",
      AWS_SECRET_ACCESS_KEY |-> "unset", AWS_SESSION_TOKEN |-> "unset" ]

InitSso ==
    /\ sso_handler = SSOAuthHandler_init
    /\ provider = [ registered |-> 0, issued |-> 0 ]
    /\ now = 1
    /\ lastOp = [ op |-> "init", ret |-> Result("none", "none"), calls |-> <<>> ]
    /\ hist = hist_init
    /\ scan_jobs = <<>>
    /\ tasks = <<>>
    /\ loop = None
    /\ websockets = <<>>
    /\ environ = EmptyEnviron

NextSso ==
    \/ SsoStatus
    \/ SsoStartStep
    \/ SsoPollStep
    \/ SsoGetCredentialsStep
    \/ Reset
    \/ Tick

\* The device-authorization flow alone: the handler and its endpoints.
SsoSpec == InitSso /\ [][NextSso]_vars

\* ------------------------------------------------------------ scan jobs
\* A ScanRequest, reduced to the fields run_scan branches on: the credential
\* selector and the number of requested services.
Req(use_sso, aws_profile, sso_account_id, sso_role_name, services) ==
    [ use_sso |-> use_sso, aws_profile |-> aws_profile,
      sso_account_id |-> sso_account_id, sso_role_name |-> sso_role_name,
      services |-> services ]

ScanRequests ==
    { Req(FALSE, "default", NoString, NoString, 2),          \* a profile
      Req(TRUE, NoString, "111111111111", "Admin", 1),       \* an SSO account and role
      Req(TRUE, "default", "111111111111", "Admin", 1),      \* both
      Req(FALSE, NoString, NoString, NoString, 0),           \* neither, no services
      Req(TRUE, NoString, "111111111111", NoString, 1),      \* SSO without a role
      Req(FALSE, NoString, "111111111111", "Admin", 3) }     \* account and role, use_sso unset

NoError == [ kind |-> "None", code |-> 0, tail |-> <<>> ]
Error(kind, code, tail) == [ kind |-> kind, code |-> code, tail |-> tail ]

Terminal == {"completed", "failed"}

\* start_scan: the new record, keyed by a fresh job id.  (uuid4()[:8] is
\* taken to be unique.)
new_job(job_id, request, t) ==
    [ job_id |-> job_id, status |-> "pending", progress |-> 0,
      current_task |-> "Initializing...", created_at |-> t,
      completed_at |-> None, report_path |-> NoString, error |-> NoError,
      request |-> request ]

start_scan(jobs, request, t) == Append(jobs, new_job(Len(jobs) + 1, request, t))

\* The local variables of one run_scan coroutine.  `process` and `cred` are
\* kept after the coroutine has ended: whether it spawned the subprocess,
\* and what credential resolution found.
NoCred == [ authenticated |-> FALSE, creds |-> "none" ]

\* `pending` is the record a block of assignments is about to complete: the
\* block's first assignment (the status) has been made, the others not yet.
NoPending == [ status |-> "None" ]

task_init ==
    [ pc |-> "queued", env |-> EmptyEnviron, services_scanned |-> 0,
      output_lines |-> <<>>, process |-> FALSE, cred |-> NoCred,
      pending |-> NoPending ]

\* Output lines, as the sequence of their words.
Lines == { <<"Processing", "Scanning", "ec2">>, <<"Finished">> }

IsMarker(line) == Contains(line, "Processing") \/ Contains(line, "Scanning")

ReturnCodes == {0, 2}

\* What the report directory holds when run_scan looks for the report.
ReportDirs == {"missing", "no_account_dir", "found", "raises"}

Min(a, b) == IF a <= b THEN a ELSE b

\* A variant of the handler that records the error but not the status.
except_handler_no_status(job, e) == [ job EXCEPT !.error = e ]

\* A variant of the handler that swallows the exception.
except_handler_swallow(job, e) == job

\* lines 481-485
except_handler(job, e) == [ job EXCEPT !.status = "failed", !.error = e ]

\* lines 375-377
run_scan_begin(job) ==
    [ job EXCEPT !.status = "running", !.current_task = "Preparing scan...",
                 !.progress = 5 ]

\* line 394: the test that selects the SSO branch, made at time t.
use_sso_session(job, h, t) == job.request.use_sso /\ is_authenticated(h, t)

\* lines 395-428, entered with the outcome of the test of line 394.
\* returned: run_scan hit one of the two `return`s.
resolve_credentials(job, env, h, authenticated, credResp) ==
    LET request == job.request
        scanning == [ job EXCEPT !.current_task = "Scanning services...",
                                 !.progress = 10 ]
    IN  IF authenticated
        THEN IF request.sso_account_id # NoString /\ request.sso_role_name # NoString
             THEN LET region == IF h.current_region # NoRegion
                                THEN h.current_region ELSE "us-east-1"
                      r == get_role_credentials(h, request.sso_account_id,
                                                request.sso_role_name, region, credResp)
                  IN  IF r.ret.status = "error"
                      THEN [ job |-> [ job EXCEPT
                                         !.current_task = "Getting SSO credentials...",
                                         !.status = "failed",
                                         !.error = Error("Failed to get SSO credentials",
                                                         0, <<>>) ],
                             env |-> env, h |-> r.h, returned |-> TRUE,
                             cred |-> [ authenticated |-> TRUE, creds |-> "error" ] ]
                      ELSE [ job |-> scanning,
                             env |-> [ env EXCEPT !.AWS_ACCESS_KEY_ID = "sso",
                                                  !.AWS_SECRET_ACCESS_KEY = "sso",
                                                  !.AWS_SESSION_TOKEN = "sso",
                                                  !.AWS_PROFILE = "unset" ],
                             h |-> r.h, returned |-> FALSE,
                             cred |-> [ authenticated |-> TRUE, creds |-> "ok" ] ]
             ELSE [ job |-> [ job EXCEPT
                                !.current_task = "Getting SSO credentials...",
                                !.status = "failed",
                                !.error = Error("SSO login detected but no account/role selected",
                                                0, <<>>) ],
                    env |-> env, h |-> h, returned |-> TRUE,
                    cred |-> [ authenticated |-> TRUE, creds |-> "none" ] ]
        ELSE IF request.aws_profile # NoString
        THEN [ job |-> scanning,
               env |-> [ env EXCEPT !.AWS_PROFILE = request.aws_profile ],
               h |-> h, returned |-> FALSE, cred |-> NoCred ]
        ELSE [ job |-> scanning, env |-> env, h |-> h, returned |-> FALSE,
               cred |-> NoCred ]

\* A variant without the clamp at 90.
progress_of_unclamped(services_scanned, total_services) ==
    10 + ((services_scanned * 80) \div total_services)

\* line 456: min(10 + int((services_scanned / total_services) * 80), 90).
\* The float product truncates to the integer quotient for every
\* 1 <= services_scanned <= total_services < 60.
progress_of(services_scanned, total_services) ==
    Min(10 + ((services_scanned * 80) \div total_services), 90)

\* lines 450-458, one line read.  raised: the division by zero services.
read_line(job, task, line) ==
    LET lines == Append(task.output_lines, line)
    IN  IF IsMarker(line)
        THEN LET k == task.services_scanned + 1
             IN  IF job.request.services = 0
                 THEN [ job |-> job,
                        task |-> [ task EXCEPT !.output_lines = lines,
                                               !.services_scanned = k ],
                        raised |-> TRUE ]
                 ELSE [ job |-> [ job EXCEPT
                                    !.progress = progress_of(k, job.request.services),
                                    !.current_task = line[1] ],
                        task |-> [ task EXCEPT !.output_lines = lines,
                                               !.services_scanned = k ],
                        raised |-> FALSE ]
        ELSE [ job |-> job, task |-> [ task EXCEPT !.output_lines = lines ],
               raised |-> FALSE ]

\* A variant that keeps the first lines instead of the last.
LastLines_head(lines, n) ==
    IF Len(lines) <= n THEN lines ELSE SubSeq(lines, 1, n)

\* output_lines[-10:]
LastLines(lines, n) ==
    IF Len(lines) <= n THEN lines ELSE SubSeq(lines, Len(lines) - n + 1, Len(lines))

\* lines 462-466 and 475-479
on_exit(job, task, returncode, t) ==
    IF returncode = 0
    THEN [ job EXCEPT !.status = "completed", !.progress = 100,
                      !.current_task = "Scan completed successfully",
                      !.completed_at = t ]
    ELSE [ job EXCEPT !.status = "failed",
                      !.error = Error("Scan failed", returncode,
                                      IF task.output_lines # <<>>
                                      THEN LastLines(task.output_lines, 10)
                                      ELSE << <<"No output">> >>) ]

\* A variant that never records the report.
find_report_skip(job, dir) == job

\* lines 468-474
find_report(job, dir) ==
    IF dir = "found"
    THEN [ job EXCEPT !.report_path = "/reports/111111111111/index.html" ]
    ELSE job

\* The record after the first assignment of a block that ends in `final`:
\* line 463 (before 464-466), or lines 395/407, 420, 476, 484 (before the
\* error detail is assigned).
status_written(job, final) ==
    IF final.status = "completed"
    THEN [ job EXCEPT !.status = "completed" ]
    ELSE [ final EXCEPT !.error = job.error ]

\* A variant that ends the stream on "completed" only.
ws_should_break_completed(job) == job.status = "completed"

\* line 352
ws_should_break(job) == job.status \in Terminal

\* ------------------------------------------------------------ scan actions
SetJob(j, job) == [ scan_jobs EXCEPT ![j] = job ]

\* The coroutine ends: its locals are dropped and the event loop is free.
Ended(task) ==
    [ task EXCEPT !.pc = "done", !.services_scanned = 0, !.output_lines = <<>>,
                  !.pending = NoPending ]

\* A variant in which handlers run whether or not a run_scan is under way.
Scheduled_in_threads(l) == TRUE

\* lines 279, 302, 311, 338, 370: every handler and run_scan are coroutines of
\* one event loop; a handler runs only while no run_scan holds the loop.
Scheduled(l) == l = None

StartScanUpTo(request, max) ==
    /\ Scheduled(loop)
    /\ Len(scan_jobs) < max
    /\ scan_jobs' = start_scan(scan_jobs, request, now)
    /\ tasks' = Append(tasks, task_init)
    /\ UNCHANGED <<ssoVars, now, loop, websockets, environ>>

StartScan(request) == StartScanUpTo(request, MaxJobs)

RunScanBegin(j) ==
    /\ loop = None
    /\ tasks[j].pc = "queued"
    /\ loop' = j
    /\ scan_jobs' = SetJob(j, run_scan_begin(scan_jobs[j]))
    /\ tasks' = [ tasks EXCEPT ![j].pc = "credentials", ![j].env = environ ]
    /\ UNCHANGED <<ssoVars, now, websockets, environ>>

\* A block of assignments that ends in the record `final` begins: its first
\* assignment is made, the rest is left to RunScanWrite.
BeginWrite(j, job, final, task) ==
    /\ scan_jobs' = SetJob(j, status_written(job, final))
    /\ tasks' = [ tasks EXCEPT ![j] = [ task EXCEPT !.pc = "write",
                                                     !.pending = final ] ]
    /\ UNCHANGED loop

\* line 394: the clock is read here; the branch chosen runs afterwards.
RunScanCheckSso(j) ==
    /\ loop = j
    /\ tasks[j].pc = "credentials"
    /\ tasks' = [ tasks EXCEPT ![j].pc = "resolve",
                               ![j].cred.authenticated =
                                   use_sso_session(scan_jobs[j], sso_handler, now) ]
    /\ UNCHANGED <<ssoVars, now, scan_jobs, loop, websockets, environ>>

RunScanCredentials(j, credRaises) ==
    /\ loop = j
    /\ tasks[j].pc = "resolve"
    /\ LET r == resolve_credentials(scan_jobs[j], tasks[j].env, sso_handler,
                                    tasks[j].cred.authenticated,
                                    [ raises |-> credRaises ])
       IN  /\ sso_handler' = r.h
           /\ IF r.returned
              THEN BeginWrite(j, scan_jobs[j], r.job,
                              [ tasks[j] EXCEPT !.cred = r.cred ])
              ELSE /\ scan_jobs' = SetJob(j, r.job)
                   /\ tasks' = [ tasks EXCEPT ![j].pc = "spawn", ![j].env = r.env,
                                              ![j].cred = r.cred ]
                   /\ UNCHANGED loop
    /\ UNCHANGED <<provider, lastOp, hist, now, websockets, environ>>

\* lines 431-438: subprocess.Popen starts the process or raises (OSError).
RunScanSpawn(j, raises) ==
    /\ loop = j
    /\ tasks[j].pc = "spawn"
    /\ IF raises
       THEN BeginWrite(j, scan_jobs[j],
                       except_handler(scan_jobs[j], Error("OSError", 0, <<>>)),
                       tasks[j])
       ELSE /\ tasks' = [ tasks EXCEPT ![j].pc = "read", ![j].process = TRUE ]
            /\ UNCHANGED <<scan_jobs, loop>>
    /\ UNCHANGED <<ssoVars, now, websockets, environ>>

RunScanReadlineUpTo(j, line, max) ==
    /\ loop = j
    /\ tasks[j].pc = "read"
    /\ Len(tasks[j].output_lines) < max
    /\ LET r == read_line(scan_jobs[j], tasks[j], line)
       IN  IF r.raised
           THEN BeginWrite(j, r.job,
                           except_handler(r.job, Error("ZeroDivisionError", 0, <<>>)),
                           r.task)
           ELSE /\ scan_jobs' = SetJob(j, r.job)
                /\ tasks' = [ tasks EXCEPT ![j] = r.task ]
                /\ UNCHANGED loop
    /\ UNCHANGED <<ssoVars, now, websockets, environ>>

RunScanReadline(j, line) == RunScanReadlineUpTo(j, line, MaxLines)

\* readline returns '': the output has ended.
RunScanEof(j) ==
    /\ loop = j
    /\ tasks[j].pc = "read"
    /\ tasks' = [ tasks EXCEPT ![j].pc = "wait" ]
    /\ UNCHANGED <<ssoVars, now, scan_jobs, loop, websockets, environ>>

\* lines 460-463 and 475-476: the process has exited, the status is assigned.
RunScanWait(j, returncode) ==
    /\ loop = j
    /\ tasks[j].pc = "wait"
    /\ BeginWrite(j, scan_jobs[j], on_exit(scan_jobs[j], tasks[j], returncode, now),
                  tasks[j])
    /\ UNCHANGED <<ssoVars, now, websockets, environ>>

\* The rest of a block: lines 464-466, 408, 421, 478-479, 485.  The
\* completion time is read when line 466 runs.
RunScanWrite(j) ==
    /\ loop = j
    /\ tasks[j].pc = "write"
    /\ LET final == tasks[j].pending
       IN  IF final.status = "completed"
           THEN /\ scan_jobs' = SetJob(j, [ final EXCEPT !.completed_at = now ])
                /\ tasks' = [ tasks EXCEPT ![j].pc = "report",
                                           ![j].pending = NoPending ]
                /\ UNCHANGED loop
           ELSE /\ scan_jobs' = SetJob(j, final)
                /\ tasks' = [ tasks EXCEPT ![j] = Ended(@) ]
                /\ loop' = None
    /\ UNCHANGED <<ssoVars, now, websockets, environ>>

\* lines 468-474: iterdir() on the report directory may raise (OSError).
RunScanReport(j, dir) ==
    /\ loop = j
    /\ tasks[j].pc = "report"
    /\ IF dir = "raises"
       THEN BeginWrite(j, scan_jobs[j],
                       except_handler(scan_jobs[j], Error("OSError", 0, <<>>)),
                       tasks[j])
       ELSE /\ scan_jobs' = SetJob(j, find_report(scan_jobs[j], dir))
            /\ tasks' = [ tasks EXCEPT ![j] = Ended(@) ]
            /\ loop' = None
    /\ UNCHANGED <<ssoVars, now, websockets, environ>>

Running == 1..Len(tasks)

\* One step of some run_scan whose subprocess prints at most `max` lines.
RunScanStepUpTo(max) ==
    \/ \E j \in Running : RunScanBegin(j)
    \/ \E j \in Running : RunScanCheckSso(j)
    \/ \E j \in Running, x \in BOOLEAN : RunScanCredentials(j, x)
    \/ \E j \in Running, x \in BOOLEAN : RunScanSpawn(j, x)
    \/ \E j \in Running, line \in Lines : RunScanReadlineUpTo(j, line, max)
    \/ \E j \in Running : RunScanEof(j)
    \/ \E j \in Running, rc \in ReturnCodes : RunScanWait(j, rc)
    \/ \E j \in Running : RunScanWrite(j)
    \/ \E j \in Running, d \in ReportDirs : RunScanReport(j, d)

RunScanStep == RunScanStepUpTo(MaxLines)

\* ------------------------------------------------------------ websocket
\* The job ids a client may name: those of the table and one never issued.
WsJobIds == 1..(MaxJobs + 1)

\* websocket_scan_progress: accept, then loop { send the record if the job
\* exists; break if terminal; sleep }.  send_json and sleep are awaits.
WsAccept(job_id) ==
    /\ Scheduled(loop)
    /\ Len(websockets) < MaxSubs
    /\ websockets' = Append(websockets,
                            [ job_id |-> job_id, pc |-> "top", received |-> <<>> ])
    /\ UNCHANGED <<ssoVars, now, scan_jobs, tasks, loop, environ>>

WsSend(s) ==
    /\ Scheduled(loop)
    /\ s <= Len(websockets)
    /\ websockets[s].pc = "top"
    /\ websockets[s].job_id <= Len(scan_jobs)
    /\ Len(websockets[s].received) < MaxSnap
    /\ websockets' = [ websockets EXCEPT
                         ![s].received = Append(@, scan_jobs[websockets[s].job_id]),
                         ![s].pc = "sent" ]
    /\ UNCHANGED <<ssoVars, now, scan_jobs, tasks, loop, environ>>

WsCheck(s) ==
    /\ Scheduled(loop)
    /\ s <= Len(websockets)
    /\ websockets[s].pc = "sent"
    /\ websockets' = [ websockets EXCEPT
                         ![s].pc = IF ws_should_break(scan_jobs[websockets[s].job_id])
                                   THEN "closed" ELSE "top" ]
    /\ UNCHANGED <<ssoVars, now, scan_jobs, tasks, loop, environ>>

\* send_json raises WebSocketDisconnect: the subscriber has gone.  Nothing
\* is sent, hence nothing raised, while the job id is not in the table.
WsDisconnect(s) ==
    /\ Scheduled(loop)
    /\ websockets[s].pc = "top"
    /\ websockets[s].job_id <= Len(scan_jobs)
    /\ websockets' = [ websockets EXCEPT ![s].pc = "disconnected" ]
    /\ UNCHANGED <<ssoVars, now, scan_jobs, tasks, loop, environ>>

WsStep ==
    \/ \E id \in WsJobIds : WsAccept(id)
    \/ \E s \in 1..Len(websockets) : WsSend(s)
    \/ \E s \in 1..Len(websockets) : WsCheck(s)
    \/ \E s \in 1..Len(websockets) : WsDisconnect(s)

\* ------------------------------------------------------------ job runner spec
FullEnviron ==
    [ AWS_PROFILE |-> "ambient", AWS_ACCESS_KEY_ID |-> "ambient",
      AWS_SECRET_ACCESS_KEY |-> "ambient", AWS_SESSION_TOKEN |-> "ambient" ]

Environs == { EmptyEnviron, FullEnviron }

\* The handler after one completed login: start_device_authorization, then a
\* poll the provider answers with a token of the shortest lifetime.
LoggedInStart ==
    sso_start(SSOAuthHandler_init, <<"acme", "awsapps.com", "start">>, "us-east-1",
              [ raises |-> FALSE, clientId |-> 1, clientSecret |-> 1 ],
              [ raises |-> FALSE, deviceCode |-> 1 ])

LoggedInPoll ==
    sso_poll(LoggedInStart.h,
             [ kind |-> "success", accessToken |-> 1, expiresIn |-> 1 ], 1)

InitScan ==
    /\ \/ /\ sso_handler = SSOAuthHandler_init
          /\ provider = [ registered |-> 0, issued |-> 0 ]
          /\ lastOp = [ op |-> "init", ret |-> Result("none", "none"), calls |-> <<>> ]
          /\ hist = hist_init
       \/ /\ sso_handler = LoggedInPoll.h
          /\ provider = [ registered |-> 1, issued |-> 1 ]
          /\ lastOp = Op("sso_poll", LoggedInPoll)
          /\ hist = [ exchanged |-> TRUE, cleared |-> FALSE,
                      prevStart |-> [ region |-> "us-east-1", client_id |-> 1,
                                      client_secret |-> 1,
                                      prev_region |-> NoRegion ] ]
    /\ now = 1
    /\ scan_jobs = <<>>
    /\ tasks = <<>>
    /\ loop = None
    /\ websockets = <<>>
    /\ environ \in Environs

StartScanStep == \E request \in ScanRequests : StartScan(request)

NextScan ==
    \/ StartScanStep
    \/ RunScanStep
    \/ WsStep
    \/ Tick

\* The job table, the runner and the subscribers, with the handler either
\* fresh or logged in.
ScanSpec == InitScan /\ [][NextScan]_vars

\* The event loop runs a background task that is ready: a run_scan step
\* that stays enabled is eventually taken.
FairScanSpec == ScanSpec /\ WF_vars(RunScanStep)

\* The event loop also resumes a subscriber whose sleep or send has
\* finished: a send or a status test that stays enabled is eventually taken.
FairWsSpec ==
    /\ ScanSpec
    /\ WF_vars(RunScanStep)
    /\ \A s \in 1..MaxSubs : WF_vars(WsSend(s)) /\ WF_vars(WsCheck(s))

\* ------------------------------------------------------------ reading the table
\* lines 302-308
get_scan_status(jobs, job_id) ==
    IF job_id \in 1..Len(jobs)
    THEN [ code |-> 200, body |-> jobs[job_id] ]
    ELSE [ code |-> 404, body |-> [ detail |-> "Scan job not found" ] ]

\* lines 311-314: list(scan_jobs.values()), the records in insertion order.
list_scans(jobs) == [ i \in 1..Len(jobs) |-> jobs[i] ]

GetScanStatus(job_id) ==
    /\ Scheduled(loop)
    /\ lastOp' = [ op |-> "get_scan_status", job_id |-> job_id,
                   ret |-> Result(IF get_scan_status(scan_jobs, job_id).code = 200
                                  THEN "200" ELSE "404", "job"),
                   calls |-> <<>> ]
    /\ UNCHANGED <<sso_handler, provider, now, hist, scanVars>>

ListScans ==
    /\ Scheduled(loop)
    /\ lastOp' = [ op |-> "list_scans", ret |-> Result("200", "scans"),
                   calls |-> <<>> ]
    /\ UNCHANGED <<sso_handler, provider, now, hist, scanVars>>

GetScanStatusStep == \E id \in WsJobIds : GetScanStatus(id)

\* Up to MaxApiJobs scans with a profile, their subscribers, and the two
\* reading endpoints.
NextApi ==
    \/ StartScanUpTo(Req(FALSE, "default", NoString, NoString, 2), MaxApiJobs)
    \/ RunScanStep
    \/ WsStep
    \/ GetScanStatusStep
    \/ ListScans

ApiSpec == InitSso /\ [][NextApi]_vars

\* ------------------------------------------------------------ listing accounts and roles
\* One page of a paginated listing: the provider raises, or answers with the
\* page's items (none when the page lacks the list key).
AccountItems == {"111111111111", "222222222222"}
RoleItems == {"Admin", "ReadOnly"}

Pages(items) ==
    LET kinds == { [ raises |-> FALSE, items |-> <<x>> ] : x \in items }
                     \cup { [ raises |-> FALSE, items |-> <<>> ],
                            [ raises |-> TRUE, items |-> <<>> ] }
    IN  UNION { [ 1..n -> kinds ] : n \in 1..MaxPages }

\* sso_auth.py lines 207-210 and 224-230: extend the list page by page; an
\* exception ends the loop and is printed.
RECURSIVE extend_pages(_, _)
extend_pages(pages, list) ==
    IF pages = <<>> \/ Head(pages).raises
    THEN list
    ELSE extend_pages(Tail(pages), list \o Head(pages).items)

\* The page requests made: up to and including the first that raises.
RECURSIVE page_requests(_)
page_requests(pages) ==
    IF pages = <<>> THEN 0
    ELSE IF Head(pages).raises THEN 1
    ELSE 1 + page_requests(Tail(pages))

list_accounts(h, region, pages) ==
    IF h.access_token = None
    THEN [ h |-> h, items |-> <<>>, error |-> NoString, calls |-> <<>> ]
    ELSE [ h |-> get_sso_client(h, region),
           items |-> extend_pages(pages, <<>>), error |-> NoString,
           calls |-> [ i \in 1..page_requests(pages) |->
                         Call("list_accounts", None, None, None, h.access_token) ] ]

list_account_roles(h, account_id, region, pages) ==
    IF h.access_token = None
    THEN [ h |-> h, items |-> <<>>, error |-> NoString, calls |-> <<>> ]
    ELSE [ h |-> get_sso_client(h, region),
           items |-> extend_pages(pages, <<>>), error |-> NoString,
           calls |-> [ i \in 1..page_requests(pages) |->
                         Call("list_account_roles", None, None, None, h.access_token) ] ]

\* app.py lines 239-247
sso_list_accounts(h, pages, t) ==
    IF ~is_authenticated(h, t)
    THEN [ h |-> h, items |-> <<>>, error |-> "Not authenticated", calls |-> <<>> ]
    ELSE list_accounts(h, IF h.current_region # NoRegion THEN h.current_region
                          ELSE "us-east-1", pages)

\* app.py lines 250-258
sso_list_roles(h, account_id, pages, t) ==
    IF ~is_authenticated(h, t)
    THEN [ h |-> h, items |-> <<>>, error |-> "Not authenticated", calls |-> <<>> ]
    ELSE list_account_roles(h, account_id,
                            IF h.current_region # NoRegion THEN h.current_region
                            ELSE "us-east-1", pages)

Listed(name, r) ==
    [ op |-> name, ret |-> Result(IF r.error = NoString THEN "listed" ELSE "error", r.error),
      calls |-> r.calls, items |-> r.items ]

SsoListAccounts(pages) ==
    /\ LET r == sso_list_accounts(sso_handler, pages, now)
       IN  /\ sso_handler' = r.h
           /\ lastOp' = Listed("sso_list_accounts", r)
    /\ UNCHANGED <<provider, now, hist, scanVars>>

SsoListRoles(account_id, pages) ==
    /\ LET r == sso_list_roles(sso_handler, account_id, pages, now)
       IN  /\ sso_handler' = r.h
           /\ lastOp' = Listed("sso_list_roles", r)
    /\ UNCHANGED <<provider, now, hist, scanVars>>

SsoListAccountsStep == \E pages \in Pages(AccountItems) : SsoListAccounts(pages)
SsoListRolesStep ==
    \E a \in AccountItems, pages \in Pages(RoleItems) : SsoListRoles(a, pages)

InitList == InitScan /\ environ = EmptyEnviron

NextList ==
    \/ SsoListAccountsStep
    \/ SsoListRolesStep
    \/ Tick

\* The two listings, asked of a handler that is fresh or logged in.
ListSpec == InitList /\ [][NextList]_vars

\* ------------------------------------------------------------ long output
\* One scan with a profile, whose subprocess prints up to MaxTail lines.
LongOutputStep == RunScanStepUpTo(MaxTail)

NextOutput ==
    \/ StartScanUpTo(Req(FALSE, "default", NoString, NoString, 2), 1)
    \/ LongOutputStep

OutputSpec == InitSso /\ [][NextOutput]_vars

\* ------------------------------------------------------------ properties
JobIds == 1..Len(scan_jobs)

\* C1: once run_scan has written "completed" or "failed" to a job record, no
\* later step changes that job's status.
C1_TerminalStatusImmutable ==
    [][ \A j \in JobIds :
            scan_jobs[j].status \in Terminal
                => scan_jobs'[j].status = scan_jobs[j].status ]_vars

\* C2: the progress values a subscriber receives never decrease, and a
\* snapshot with a terminal status is the last one it receives.
C2_SubscriberProgressMonotone ==
    \A s \in 1..Len(websockets) :
        LET r == websockets[s].received
        IN  \A i \in 1..Len(r) : \A k \in 1..Len(r) :
                i < k => /\ r[i].progress <= r[k].progress
                         /\ r[i].status \notin Terminal

C2_Witness ==
    \E s \in 1..Len(websockets) :
        LET r == websockets[s].received
        IN  /\ Len(r) >= 2
            /\ websockets[s].pc = "closed"
            /\ r[1].progress < r[Len(r)].progress
            /\ r[Len(r)].status = "failed"

\* C3: every job whose run_scan has started eventually has status
\* completed or failed.
C3_StartedJobsTerminate ==
    \A j \in 1..MaxJobs :
        [] ( (j <= Len(tasks) /\ tasks[j].pc # "queued")
                => <> (j <= Len(scan_jobs) /\ scan_jobs[j].status \in Terminal) )

C3_Witness ==
    \E j \in JobIds :
        /\ tasks[j].pc = "done"
        /\ scan_jobs[j].status = "failed"
        /\ scan_jobs[j].error.kind = "ZeroDivisionError"
        /\ scan_jobs[j].request.services = 0

\* C4: for a request with use_sso set, the subprocess is spawned only if the
\* handler was authenticated at credential resolution, account id and role
\* name were present and get_role_credentials returned credentials; in
\* every other case the job ends failed with no subprocess spawned.
C4_SsoSpawnOnlyWithCredentials ==
    \A j \in JobIds :
        LET request == scan_jobs[j].request
            resolved == /\ tasks[j].cred.authenticated
                        /\ request.sso_account_id # NoString
                        /\ request.sso_role_name # NoString
                        /\ tasks[j].cred.creds = "ok"
        IN  request.use_sso =>
                /\ tasks[j].process => resolved
                /\ (tasks[j].pc = "done" /\ ~resolved)
                       => (scan_jobs[j].status = "failed" /\ ~tasks[j].process)

\* C5: every job in the table was created from a request that names exactly
\* one of a profile and an SSO account id with role name.
ExactlyOneSelector(request) ==
    (request.aws_profile # NoString)
        # (request.sso_account_id # NoString /\ request.sso_role_name # NoString)

C5_OnlyValidSelectorsCreateJobs ==
    \A j \in JobIds : ExactlyOneSelector(scan_jobs[j].request)

\* C6: a poll issued while no device code is stored yields the no-session
\* error, makes no call to the provider and leaves the handler unchanged.
C6_PollWithoutSession ==
    [][ (sso_handler.device_code = None /\ lastOp'.op = "sso_poll" /\ SsoPollStep)
            => /\ lastOp'.ret.status = "error"
               /\ lastOp'.ret.message \in NoSessionMessages
               /\ lastOp'.calls = <<>>
               /\ sso_handler' = sso_handler ]_vars

C6_Witness ==
    /\ lastOp.op = "sso_poll"
    /\ lastOp.ret.message = "No device authorization in progress"
    /\ lastOp.calls = <<>>
    /\ sso_handler.device_code = None
    /\ sso_handler.client_id # None

\* C7: a poll the provider answers with pending, slow_down or another
\* failure leaves device code, client id and secret, region and stored
\* token as they were, so the next poll calls the provider again.
SessionOf(h) ==
    << h.device_code, h.client_id, h.client_secret, h.current_region,
       h.access_token, h.token_expiry >>

C7_RetryableOutcomesKeepSession ==
    [][ ( /\ lastOp'.op = "sso_poll"
          /\ lastOp'.calls # <<>>
          /\ lastOp'.ret.status \in {"pending", "slow_down", "error"}
          /\ SsoPollStep )
            => /\ SessionOf(sso_handler') = SessionOf(sso_handler)
               /\ sso_poll(sso_handler',
                           [ kind |-> "pending", accessToken |-> None,
                             expiresIn |-> 1 ], now).calls # <<>> ]_vars

C7_Witness ==
    /\ lastOp.op = "sso_poll"
    /\ lastOp.ret.status = "slow_down"
    /\ sso_handler.device_code # None
    /\ sso_handler.access_token # None

\* C8: a poll answered with expired or denied clears the device code; from
\* then until a start succeeds, every poll yields the no-session error
\* without calling the provider.
C8_ExpiredDeniedClearSession ==
    [][ (lastOp'.op = "sso_poll" /\ SsoPollStep)
            => /\ lastOp'.ret.status \in {"expired", "denied"}
                      => sso_handler'.device_code = None
               /\ hist.cleared
                      => /\ lastOp'.ret.status = "error"
                         /\ lastOp'.ret.message \in NoSessionMessages
                         /\ lastOp'.calls = <<>> ]_vars

C8_Witness ==
    /\ hist.cleared
    /\ lastOp.op = "sso_poll"
    /\ lastOp.ret.message = "No device authorization in progress"
    /\ sso_handler.client_id # None

\* C9: with no successful token exchange since construction or the last
\* reset, asking for role credentials yields "Not authenticated" and makes
\* no call to the provider.
C9_NoTokenNoCredentials ==
    [][ (~hist.exchanged /\ lastOp'.op = "sso_get_credentials" /\ SsoGetCredentialsStep)
            => /\ lastOp'.ret = Result("error", "Not authenticated")
               /\ lastOp'.calls = <<>> ]_vars

C9_Witness ==
    /\ lastOp.op = "sso_get_credentials"
    /\ lastOp.ret = Result("error", "Not authenticated")
    /\ ~hist.exchanged
    /\ sso_handler.device_code # None

\* C10: a successful start whose region differs from that of the previous
\* successful start registers a new client, and its device-authorization
\* request carries the new client id and secret, not the previous ones.
C10_RegionChangeRegistersAnew ==
    [][ ( /\ lastOp'.op = "sso_start"
          /\ lastOp'.ret.status = "started"
          /\ hist.prevStart # NoStart
          /\ hist.prevStart.region # lastOp'.ret.message
          /\ SsoStartStep )
            => LET calls == lastOp'.calls
                   fresh == provider.registered + 1
               IN  /\ Len(calls) = 2
                   /\ calls[1].api = "register_client"
                   /\ provider'.registered = fresh
                   /\ calls[2].api = "start_device_authorization"
                   /\ calls[2].clientId = fresh
                   /\ calls[2].clientSecret = fresh
                   /\ fresh # hist.prevStart.client_id
                   /\ sso_handler'.client_id = fresh
                   /\ sso_handler'.client_secret = fresh ]_vars

C10_Witness ==
    /\ lastOp.op = "sso_start"
    /\ lastOp.ret.status = "started"
    /\ hist.prevStart.prev_region \in Regions
    /\ hist.prevStart.prev_region # hist.prevStart.region
    /\ sso_handler.client_id = provider.registered

\* C11: while the output of a job with n >= 1 services is consumed, after k >= 1
\* lines containing a marker (each counted once) the progress is
\* min(10 + floor(80 * k / n), 90): 50 then 90 for n = 2; and the progress
\* does not exceed 90 before the process has exited.
MarkerLines(lines) == Cardinality({ i \in 1..Len(lines) : IsMarker(lines[i]) })

C11_ProgressFromMarkerLines ==
    \A j \in JobIds :
        LET n == scan_jobs[j].request.services
            k == MarkerLines(tasks[j].output_lines)
            p == scan_jobs[j].progress
        IN  /\ (tasks[j].pc \in {"read", "wait"} /\ n >= 1 /\ k >= 1)
                  => /\ p <= 10 + ((80 * k) \div n)
                     /\ p <= 90
                     /\ p = 90 \/ p = 10 + ((80 * k) \div n)
                     /\ (n = 2 /\ k = 1) => p = 50
                     /\ (n = 2 /\ k = 2) => p = 90
            /\ tasks[j].pc \in {"queued", "credentials", "spawn", "read", "wait"}
                  => p <= 90

C11_Witness ==
    \E j \in JobIds :
        /\ tasks[j].pc = "read"
        /\ scan_jobs[j].request.services = 3
        /\ MarkerLines(tasks[j].output_lines) = 2
        /\ Len(tasks[j].output_lines) = 2
        /\ scan_jobs[j].progress = 63

\* C12: when the subprocess has exited with code 0 and the listing of the
\* output root finds an all-digit directory, the job ends completed, with
\* progress 100 and report_path /reports/<account id>/index.html, and the
\* record of an ended job does not change any more.
C12_ExitZeroWithReportCompletes ==
    [][ \A j \in JobIds :
            /\ (tasks[j].pc = "report" /\ RunScanReport(j, "found"))
                  => /\ tasks'[j].pc = "done"
                     /\ scan_jobs'[j].status = "completed"
                     /\ scan_jobs'[j].progress = 100
                     /\ scan_jobs'[j].report_path = "/reports/111111111111/index.html"
            /\ tasks[j].pc = "done" => scan_jobs'[j] = scan_jobs[j] ]_vars

C12_Witness ==
    \E j \in JobIds :
        /\ tasks[j].pc = "done"
        /\ tasks[j].process
        /\ scan_jobs[j].status = "completed"
        /\ scan_jobs[j].progress = 100
        /\ scan_jobs[j].completed_at # None
        /\ scan_jobs[j].report_path = "/reports/111111111111/index.html"

\* C13: when the subprocess exits with a code c other than 0, the job ends
\* failed with an error that carries c and exactly the last min(10, m) of
\* the m captured lines in their order ("No output" when m = 0), and no
\* report_path.
IsTailOf(tail, lines) ==
    LET m == Len(lines)
    IN  IF m = 0
        THEN tail = << <<"No output">> >>
        ELSE /\ Len(tail) = Min(10, m)
             /\ \A i \in 1..Len(tail) : tail[i] = lines[m - Len(tail) + i]

C13_NonZeroExitFails ==
    [][ \A j \in JobIds :
            /\ \A c \in ReturnCodes \ {0} :
                  (tasks[j].pc = "wait" /\ RunScanWait(j, c))
                      => /\ scan_jobs'[j].status = "failed"
                         /\ tasks'[j].pc = "write"
                         /\ tasks'[j].pending.error.code = c
                         /\ IsTailOf(tasks'[j].pending.error.tail,
                                     tasks[j].output_lines)
            /\ ( /\ tasks[j].pc = "write"
                 /\ tasks[j].pending.error.kind = "Scan failed"
                 /\ RunScanWrite(j) )
                  => /\ tasks'[j].pc = "done"
                     /\ scan_jobs'[j].status = "failed"
                     /\ scan_jobs'[j].error = tasks[j].pending.error
                     /\ scan_jobs'[j].report_path = NoString ]_vars

C13_Witness ==
    \E j \in JobIds :
        /\ tasks[j].pc = "write"
        /\ Len(tasks[j].output_lines) = 11
        /\ tasks[j].output_lines[1] # tasks[j].output_lines[11]
        /\ scan_jobs[j].status = "failed"
        /\ tasks[j].pending.error.code = 2
        /\ Len(tasks[j].pending.error.tail) = 10

\* C14: in every job record, report_path and error are never both set; both
\* are absent while the status is pending or running; report_path is set
\* only if the status is completed, error only if it is failed, and
\* completed_at only if it is completed or failed.
C14_ReportAndErrorExclusive ==
    \A j \in JobIds :
        LET job == scan_jobs[j]
        IN  /\ ~(job.report_path # NoString /\ job.error # NoError)
            /\ job.status \in {"pending", "running"}
                  => (job.report_path = NoString /\ job.error = NoError)
            /\ job.report_path # NoString => job.status = "completed"
            /\ job.error # NoError => job.status = "failed"
            /\ job.completed_at # None => job.status \in Terminal

C14_Witness ==
    \E j \in JobIds :
        /\ tasks[j].pc = "done"
        /\ scan_jobs[j].status = "failed"
        /\ scan_jobs[j].error # NoError
        /\ scan_jobs[j].completed_at # None
        /\ scan_jobs[j].report_path = NoString

\* C15: the environment handed to a spawned subprocess never holds both
\* AWS_PROFILE and an entry of AWS_ACCESS_KEY_ID / AWS_SECRET_ACCESS_KEY /
\* AWS_SESSION_TOKEN, whatever the environment of the server process.
HasKeys(env) ==
    \/ env.AWS_ACCESS_KEY_ID # "unset"
    \/ env.AWS_SECRET_ACCESS_KEY # "unset"
    \/ env.AWS_SESSION_TOKEN # "unset"

C15_ProfileAndKeysExclusive ==
    \A j \in JobIds :
        tasks[j].process => ~(tasks[j].env.AWS_PROFILE # "unset" /\ HasKeys(tasks[j].env))

\* C16: list_scans returns every record of the table, the more recently
\* created before the earlier ones.
C16_ListMostRecentFirst ==
    [][ (lastOp'.op = "list_scans" /\ ListScans)
            => LET scans == list_scans(scan_jobs)
               IN  /\ Len(scans) = Len(scan_jobs)
                   /\ \A j \in JobIds : \E i \in 1..Len(scans) : scans[i] = scan_jobs[j]
                   /\ \A i \in 1..Len(scans) : \A k \in 1..Len(scans) :
                          i < k => /\ scans[i].job_id > scans[k].job_id
                                   /\ scans[i].created_at >= scans[k].created_at ]_vars

\* C19: a record that get_scan_status or list_scans returns, or that a
\* subscriber is sent, is never half written: with status completed it has
\* progress 100 and a completion time, with status failed it has an error.
WhollyWritten(job) ==
    /\ job.status = "completed" => (job.progress = 100 /\ job.completed_at # None)
    /\ job.status = "failed" => job.error # NoError

C19_ReadersSeeWholeRecords ==
    [][ /\ \A id \in WsJobIds :
              (lastOp'.op = "get_scan_status" /\ GetScanStatus(id))
                  => LET response == get_scan_status(scan_jobs, id)
                     IN  response.code = 200 => WhollyWritten(response.body)
        /\ (lastOp'.op = "list_scans" /\ ListScans)
              => LET scans == list_scans(scan_jobs)
                 IN  \A i \in 1..Len(scans) : WhollyWritten(scans[i])
        /\ \A s \in 1..Len(websockets) :
              websockets'[s].received # websockets[s].received
                  => LET r == websockets'[s].received
                     IN  WhollyWritten(r[Len(r)]) ]_vars

C19_Witness ==
    /\ lastOp.op = "get_scan_status"
    /\ lastOp.ret.status = "200"
    /\ scan_jobs[lastOp.job_id].status = "completed"
    /\ loop = None
    /\ \E j \in JobIds : scan_jobs[j].status = "failed"
    /\ \E s \in 1..Len(websockets) :
          /\ websockets[s].received # <<>>
          /\ websockets[s].received[Len(websockets[s].received)].status \in Terminal

\* C20: while a run_scan is between the spawn of its subprocess and the
\* subprocess's exit, a request-handling operation can take a step.
RequestStep ==
    \/ GetScanStatusStep
    \/ ListScans
    \/ \E s \in 1..Len(websockets) : WsSend(s) \/ WsCheck(s)

C20_ReadingOutputLeavesHandlersFree ==
    (\E j \in JobIds : tasks[j].pc \in {"read", "wait"}) => ENABLED RequestStep

\* C18: the handler reports itself authenticated exactly when a token is
\* stored and the clock is strictly before the token's expiry; a token is
\* never stored without an expiry, and after reset() the handler is not
\* authenticated.
C18_AuthenticatedIffTokenAlive ==
    /\ (sso_status(sso_handler, now).ret.status = "authenticated")
           <=> (sso_handler.access_token # None /\ now < sso_handler.token_expiry)
    /\ sso_handler.access_token # None <=> sso_handler.token_expiry # None
    /\ lastOp.op = "reset" => ~is_authenticated(sso_handler, now)
    /\ (lastOp.op = "sso_status" /\ lastOp.ret.status = "authenticated")
           => sso_handler.access_token # None

C18_Witness ==
    /\ sso_handler.access_token # None
    /\ now = sso_handler.token_expiry
    /\ lastOp.op = "sso_status"
    /\ lastOp.ret.status = "unauthenticated"
    /\ hist.exchanged

\* C17: every accepted subscription that does not disconnect, whatever job
\* id it names, is sent a snapshot; if its job reaches a terminal status it
\* is eventually sent exactly one terminal snapshot, as its last, and is
\* then closed; none stays open for ever without a snapshot.
Accepted(s) == s <= Len(websockets)
Gone(s) == Accepted(s) /\ websockets[s].pc = "disconnected"
Emitted(s) == Accepted(s) /\ websockets[s].received # <<>>
TerminalSnapshots(s) ==
    Cardinality({ i \in 1..Len(websockets[s].received) :
                    websockets[s].received[i].status \in Terminal })
JobEnded(s) ==
    /\ Accepted(s)
    /\ websockets[s].job_id <= Len(scan_jobs)
    /\ scan_jobs[websockets[s].job_id].status \in Terminal
    /\ tasks[websockets[s].job_id].pc = "done"
ClosedAfterTerminal(s) ==
    /\ Accepted(s)
    /\ websockets[s].pc = "closed"
    /\ TerminalSnapshots(s) = 1
    /\ websockets[s].received[Len(websockets[s].received)].status \in Terminal

C17_Emits ==
    \A s \in 1..MaxSubs :
        [] (Accepted(s) => <> (Gone(s) \/ Emitted(s)))

C17_Closes ==
    \A s \in 1..MaxSubs :
        [] ( ( /\ JobEnded(s)
               /\ websockets[s].pc \in {"top", "sent"}
               /\ TerminalSnapshots(s) = 0
               /\ Len(websockets[s].received) < MaxSnap )
                 => <> (Gone(s) \/ ClosedAfterTerminal(s)) )

C17_SubscribersServedAndClosed == C17_Emits /\ C17_Closes

\* C21: start_device_authorization calls register_client exactly when the
\* handler's region differs from the requested one or no client is
\* registered; with a client registered for the requested region it makes
\* no registration call and keeps the client id and secret.
C21_RegistersOnlyWhenNeeded ==
    [][ (lastOp'.op = "sso_start" /\ SsoStartStep)
            => LET requested == lastOp'.ret.message
                   needed == \/ sso_handler.current_region # requested
                             \/ sso_handler.client_id = None
                   registers == \E i \in 1..Len(lastOp'.calls) :
                                    lastOp'.calls[i].api = "register_client"
               IN  /\ registers <=> needed
                   /\ (~needed /\ lastOp'.ret.status = "started")
                         => /\ sso_handler'.client_id = sso_handler.client_id
                            /\ sso_handler'.client_secret = sso_handler.client_secret ]_vars

\* C22: after a successful start the stored device code is the one just
\* issued, and the handler is not authenticated until a later poll
\* succeeds, even when an earlier login left a token that has not expired.
C22_StartDiscardsPriorSession ==
    [][ (lastOp'.op = "sso_start" /\ lastOp'.ret.status = "started" /\ SsoStartStep)
            => /\ sso_handler'.device_code = provider'.issued
               /\ provider'.issued = provider.issued + 1
               /\ ~is_authenticated(sso_handler', now') ]_vars

\* C25: a start that fails, in the registration or in the
\* device-authorization request, leaves client id and secret, device code,
\* region and token as they were.
C25_FailedStartKeepsSession ==
    [][ (lastOp'.op = "sso_start" /\ lastOp'.ret.status = "error" /\ SsoStartStep)
            => SessionOf(sso_handler') = SessionOf(sso_handler) ]_vars

\* C23: a listing of accounts or of roles returns the items of all pages in
\* order when every page succeeds, and the empty sequence, without raising,
\* when the provider fails on any page, also after pages were fetched.
RECURSIVE Concatenation(_)
Concatenation(pages) ==
    IF pages = <<>> THEN <<>> ELSE Head(pages).items \o Concatenation(Tail(pages))

ExpectedListing(pages) ==
    IF \E i \in 1..Len(pages) : pages[i].raises THEN <<>> ELSE Concatenation(pages)

C23_ListingAllPagesOrNothing ==
    [][ /\ \A pages \in Pages(AccountItems) :
              ( /\ lastOp'.op = "sso_list_accounts"
                /\ lastOp'.ret.status = "listed"
                /\ SsoListAccounts(pages) )
                  => lastOp'.items = ExpectedListing(pages)
        /\ \A a \in AccountItems : \A pages \in Pages(RoleItems) :
              ( /\ lastOp'.op = "sso_list_roles"
                /\ lastOp'.ret.status = "listed"
                /\ SsoListRoles(a, pages) )
                  => lastOp'.items = ExpectedListing(pages) ]_vars

\* C24: get_role_credentials, called while is_authenticated() is false (no
\* token is held, or a token is stored whose expiry has passed), returns the
\* unauthenticated error value without calling the provider; and a failure
\* of the provider is returned as an error value.
C24_NoValidTokenNoCredentials ==
    [][ \A j \in Running : \A x \in BOOLEAN :
          ( /\ tasks[j].pc = "resolve"
            /\ tasks[j].cred.authenticated
            /\ scan_jobs[j].request.sso_account_id # NoString
            /\ scan_jobs[j].request.sso_role_name # NoString
            /\ RunScanCredentials(j, x) )
              => LET request == scan_jobs[j].request
                     region == IF sso_handler.current_region # NoRegion
                               THEN sso_handler.current_region ELSE "us-east-1"
                     r == get_role_credentials(sso_handler, request.sso_account_id,
                                               request.sso_role_name, region,
                                               [ raises |-> x ])
                 IN  /\ ~is_authenticated(sso_handler, now)
                           => /\ r.ret = Result("error", "Not authenticated")
                              /\ r.calls = <<>>
                              /\ tasks'[j].cred.creds = "error"
                     /\ x => /\ r.ret.status = "error"
                             /\ tasks'[j].cred.creds = "error" ]_vars

====
